---- MODULE Spec2Model ----
(***************************************************************************)
(* A model of the Datablip download engine.                                *)
(*                                                                         *)
(* Spec      the life of one download in downloader.Manager                *)
(*           (internal/downloader/manager.go): AddDownload, the controller *)
(*           goroutine startDownload with its chunk workers, the progress  *)
(*           tickers, and the PauseDownload / ResumeDownload /             *)
(*           DeleteDownload requests, every goroutine stepping at its own  *)
(*           pace.  The bus is observed where events are handed to it.     *)
(* LiveSpec  Spec plus the fairness the Go scheduler gives every goroutine *)
(*           that can run.                                                 *)
(* BusSpec   Manager.Subscribe and Manager.broadcastUpdate with several    *)
(*           concurrent publishers and several subscriber channels.        *)
(* CliSpec   one Download call of the command-line Downloader             *)
(*           (scripts/cross-compile.sh): probe, createChunks, the chunk    *)
(*           goroutines, verifyChunks and the merge attempts.              *)
(* CliLiveSpec  CliSpec plus fairness for the Downloader's own steps.      *)
(* IdSpec    the ids AddDownload gives its downloads, read off the clock.  *)
(*                                                                         *)
(* Server.downloadFile (internal/api/handlers.go) is an action of Spec.    *)
(***************************************************************************)
EXTENDS Integers, Sequences, FiniteSets, TLC

(* Bounds of the model. *)
MaxChunks == 2      \* chunk counts requested: 1..MaxChunks
MaxSize == 3        \* largest Content-Length / body length the origin serves
MaxExtra == 1       \* bytes a ranged response may carry beyond its range
ChanCap == 2        \* listener channel capacity (make(chan DownloadUpdate, 100), scaled)
MaxSubs == 2        \* Subscribe calls
MaxEvents == 3      \* updates handed to broadcastUpdate in BusSpec
MaxCliChunks == 3   \* -chunks values of the command-line Downloader: 1..MaxCliChunks
MaxClock == 11      \* last reading of the clock
MaxAdds == 3        \* AddDownload calls in IdSpec
MaxFile == 4        \* largest Content-Length / body length served to the Downloader
Tolerance == 1      \* the 1024 bytes a 206 body may differ from the chunk's size, scaled

(* DownloadStatus; "none" is the status of a download not created yet. *)
StatusPending == "pending"
StatusDownloading == "downloading"
StatusPaused == "paused"
StatusCompleted == "completed"
StatusError == "error"

ID == "d1"
NotFound == "download not found"    \* fmt.Errorf("download not found")
ChunkIds == 0 .. (MaxChunks - 1)
Terminal == {StatusCompleted, StatusError}
Absent == -1        \* size of a file that does not exist
EventTypes == {"status", "error", "progress", "paused", "resumed", "completed"}
StatusEvents == {"paused", "resumed", "completed", "error"}
Recorded == {"completed"}   \* the event types whose publication seen records
Publishers == {"p1", "p2"}  \* goroutines calling broadcastUpdate in BusSpec
BusTypes == {"progress", "completed"}   \* event types they publish
CliChunkIds == 1 .. MaxCliChunks        \* positions in the Downloader's chunk slice

VARIABLES
    downloads,      \* Manager.downloads: the ids in the registry
    muLocked,       \* Manager.mu is held for writing (by DeleteDownload)
    Status,         \* Download.Status
    Chunks,         \* Download.Chunks
    TotalSize,      \* Download.TotalSize
    ctl,            \* where the controller goroutine (startDownload) is
    wk,             \* where each chunk worker goroutine (downloadChunk) is
    downloaded,     \* each worker's local byte count
    tmp,            \* size of the file at chunk_<id>_<i>.tmp, or Absent
    linked,         \* worker i's open handle is the file now at that path
    out,            \* size of the file at OutputPath, or Absent
    mergeIdx,       \* mergeChunks' loop index
    ticker,         \* where the progress ticker goroutine is
    pausePc,        \* where the PauseDownload call is
    resumePc,       \* where the ResumeDownload call is
    deletePc,       \* where the DeleteDownload call is
    seen,           \* recorded event types handed to broadcastUpdate so far
    afterCompleted, \* event types handed to it after a "completed" event
    URL,            \* Download.URL
    headCode,       \* status of the response to the probe's HEAD; 0: none yet
    served,         \* the number of bytes of file content Server.downloadFile
                    \* last streamed, Absent while it has streamed none
    lastErr,        \* the error the most recent Manager call returned
    \* BusSpec
    listeners,      \* Manager.listeners: the buffer of each subscriber channel
    sending,        \* each publisher's broadcastUpdate call: event, loop index
    published,      \* the type of every update, in the order of the calls
    returned,       \* the updates whose broadcastUpdate call has returned
    precedes,       \* <<e, f>>: e's call returned before f's call was made
    subscribedAt,   \* how many updates had been published at each Subscribe
    delivered,      \* what each subscriber has received, in order
    dropped,        \* the sends that took the default branch
    \* CliSpec: the command-line Downloader
    dChunks,        \* Downloader.Chunks
    cliPc,          \* where Downloader.Download is
    headRanges,     \* the probe's response carried Accept-Ranges: bytes
    fileSize,       \* the size getFileSize returned
    cliChunks,         \* the []ChunkInfo createChunks returned (chunks in Download)
    cw,             \* each chunk goroutine: idle, running, blocked (in
                    \* src.Read), completed, failed
    respCode,       \* the status of the response to each chunk's GET
    chunkFiles,     \* size of each chunk file in tempDir, or Absent
    cliRequests,    \* the Range headers of the GETs sent to the origin
    attempt,        \* ensureMergeCompletion's attempt
    cliOut,         \* size of the file at Downloader.OutputPath, or Absent
    cliLayout,      \* the bytes of that file, each named by the chunk file
                    \* it was copied from
    cliErr,         \* what Download returned: "none" until it returns
    \* IdSpec: the ids AddDownload gives out
    clock,          \* what time.Now().UnixNano() returns when read now
    registry,       \* m.downloads: for each id, the AddDownload call (by
                    \* its rank) whose Download the entry points to
    returnedIds,    \* the ID of the Download each AddDownload call returned
    controllers     \* the calls whose startDownload goroutine was started

lifeVars == << downloads, muLocked, Status, Chunks, TotalSize, ctl, wk,
               downloaded, tmp, linked, out, mergeIdx, ticker, pausePc,
               resumePc, deletePc, seen, afterCompleted, URL, headCode,
               served, lastErr >>

busVars == << listeners, sending, published, returned, precedes, subscribedAt,
              delivered, dropped >>

cliVars == << dChunks, cliPc, headRanges, fileSize, cliChunks, cw, respCode,
              chunkFiles, cliRequests, attempt, cliOut, cliLayout, cliErr >>

idVars == << clock, registry, returnedIds, controllers >>

vars == << lifeVars, busVars, cliVars, idVars >>

(***************************************************************************)
(* Go's integer division truncates toward zero.                            *)
(***************************************************************************)
GoDiv(a, b) == IF a >= 0 THEN a \div b ELSE -((-a) \div b)

(* The range arithmetic of downloadChunk. *)
chunkSize == GoDiv(TotalSize, Chunks)
startByte(i) == i * chunkSize
endByte(i) == IF i = Chunks - 1 THEN TotalSize - 1 ELSE startByte(i) + chunkSize - 1
actualChunkSize(i) == endByte(i) - startByte(i) + 1

Workers == 0 .. (Chunks - 1)

(***************************************************************************)
(* broadcastUpdate as the lifecycle sees it: it takes m.mu for reading, so *)
(* it waits while DeleteDownload holds the lock; the update is handed to   *)
(* every listener (BusSpec models the fan-out).                            *)
(***************************************************************************)
broadcastUpdate(type) ==
    /\ ~muLocked
    /\ seen' = seen \cup ({type} \cap Recorded)
    /\ afterCompleted' = IF "completed" \in seen
                         THEN afterCompleted \cup {type}
                         ELSE afterCompleted

(***************************************************************************)
(* The unbuffered pauseChan: a send blocks until a goroutine receives.     *)
(***************************************************************************)
SenderWaiting == pausePc = "send" \/ resumePc = "send"

\* A receive on pauseChan takes the value of one blocked sender, which then
\* goes on to its broadcast.
ReceivePauseChan ==
    \/ /\ pausePc = "send"
       /\ pausePc' = "bcast"
       /\ UNCHANGED resumePc
    \/ /\ resumePc = "send"
       /\ resumePc' = "bcast"
       /\ UNCHANGED pausePc

InitManager ==
    /\ downloads = {}
    /\ muLocked = FALSE
    /\ Status = "none"
    /\ Chunks = 0
    /\ TotalSize = 0
    /\ ctl = "none"
    /\ wk = [i \in ChunkIds |-> "idle"]
    /\ downloaded = [i \in ChunkIds |-> 0]
    /\ tmp = [i \in ChunkIds |-> Absent]
    /\ linked = [i \in ChunkIds |-> FALSE]
    /\ out = Absent
    /\ mergeIdx = 0
    /\ ticker = "none"
    /\ pausePc = "idle"
    /\ resumePc = "idle"
    /\ deletePc = "idle"
    /\ seen = {}
    /\ afterCompleted = {}
    /\ URL = ""
    /\ headCode = 0
    /\ served = Absent
    /\ clock = 0
    /\ registry = << >>
    /\ returnedIds = << >>
    /\ controllers = {}
    /\ lastErr = "nil"
    /\ listeners = << >>
    /\ sending = [p \in Publishers |-> [ev |-> 0, idx |-> 0]]
    /\ published = << >>
    /\ returned = {}
    /\ precedes = {}
    /\ subscribedAt = << >>
    /\ delivered = << >>
    /\ dropped = {}

\* no Downloader has been constructed
InitNoDownloader ==
    /\ dChunks = 0
    /\ cliPc = "idle"
    /\ headRanges = FALSE
    /\ fileSize = 0
    /\ cliChunks = << >>
    /\ cw = [i \in CliChunkIds |-> "idle"]
    /\ respCode = [i \in CliChunkIds |-> 0]
    /\ chunkFiles = [i \in CliChunkIds |-> Absent]
    /\ cliRequests = {}
    /\ attempt = 0
    /\ cliOut = Absent
    /\ cliLayout = << >>
    /\ cliErr = "none"

Init == InitManager /\ InitNoDownloader

(***************************************************************************)
(* AddDownload: registers the download as pending and starts startDownload *)
(* in a goroutine of its own.  Neither the url nor the chunk count is      *)
(* examined; it returns a nil error.                                       *)
(***************************************************************************)
AddDownload(url, chunks) ==
    /\ Status = "none"
    /\ ~muLocked
    /\ downloads' = downloads \cup {ID}
    /\ Status' = StatusPending
    /\ URL' = url
    /\ Chunks' = chunks
    /\ ctl' = "start"
    /\ lastErr' = "nil"
    /\ UNCHANGED << muLocked, TotalSize, wk, downloaded, tmp, linked, out,
                    mergeIdx, ticker, pausePc, resumePc, deletePc, seen,
                    afterCompleted, headCode, served >>
    /\ UNCHANGED << busVars, cliVars, idVars >>

(***************************************************************************)
(* startDownload, the controller goroutine.                                *)
(***************************************************************************)
\* d.Status = StatusDownloading (line 100)
startDownloadSetStatus ==
    /\ ctl = "start"
    /\ Status' = StatusDownloading
    /\ ctl' = "bstatus"
    /\ UNCHANGED << downloads, muLocked, Chunks, TotalSize, wk, downloaded, tmp,
                    linked, out, mergeIdx, ticker, pausePc, resumePc, deletePc,
                    seen, afterCompleted >>
    /\ UNCHANGED << URL, headCode, lastErr, served >>
    /\ UNCHANGED << busVars, cliVars, idVars >>

\* the "status" broadcast (lines 101-105)
startDownloadBroadcastStatus ==
    /\ ctl = "bstatus"
    /\ broadcastUpdate("status")
    /\ ctl' = "probe"
    /\ UNCHANGED << downloads, muLocked, Status, Chunks, TotalSize, wk,
                    downloaded, tmp, linked, out, mergeIdx, ticker, pausePc,
                    resumePc, deletePc >>
    /\ UNCHANGED << URL, headCode, lastErr, served >>
    /\ UNCHANGED << busVars, cliVars, idVars >>

\* http.Head fails (lines 108-118): Status = error, then the "error" broadcast
startDownloadProbeFails ==
    /\ ctl = "probe"
    /\ Status' = StatusError
    /\ ctl' = "berror"
    /\ UNCHANGED << downloads, muLocked, Chunks, TotalSize, wk, downloaded, tmp,
                    linked, out, mergeIdx, ticker, pausePc, resumePc, deletePc,
                    seen, afterCompleted >>
    /\ UNCHANGED << URL, headCode, lastErr, served >>
    /\ UNCHANGED << busVars, cliVars, idVars >>

\* http.Head answers (lines 119-131), with whatever status: TotalSize is
\* the Content-Length it reports (-1 when it reports none); without
\* Accept-Ranges: bytes, or with one chunk, the download goes the
\* single-file way.  A request for the empty url gets no answer.
startDownloadProbe(code, size, supportsRanges) ==
    /\ ctl = "probe"
    /\ URL # ""
    /\ headCode' = code
    /\ TotalSize' = size
    /\ ctl' = IF ~supportsRanges \/ Chunks = 1 THEN "single" ELSE "spawn"
    /\ UNCHANGED << downloads, muLocked, Status, Chunks, wk, downloaded, tmp,
                    linked, out, mergeIdx, ticker, pausePc, resumePc, deletePc,
                    seen, afterCompleted >>
    /\ UNCHANGED << URL, lastErr, served >>
    /\ UNCHANGED << busVars, cliVars, idVars >>

\* the "error" broadcast that follows every Status = error of the controller
BroadcastError ==
    /\ ctl = "berror"
    /\ broadcastUpdate("error")
    /\ ctl' = "done"
    /\ UNCHANGED << downloads, muLocked, Status, Chunks, TotalSize, wk,
                    downloaded, tmp, linked, out, mergeIdx, ticker, pausePc,
                    resumePc, deletePc >>
    /\ UNCHANGED << URL, headCode, lastErr, served >>
    /\ UNCHANGED << busVars, cliVars, idVars >>

\* go m.updateProgress(d) and one goroutine per chunk (lines 141-152)
startDownloadSpawn ==
    /\ ctl = "spawn"
    /\ ticker' = "tick"
    /\ wk' = [i \in ChunkIds |-> IF i \in Workers THEN "request" ELSE "idle"]
    /\ ctl' = "wait"
    /\ UNCHANGED << downloads, muLocked, Status, Chunks, TotalSize, downloaded,
                    tmp, linked, out, mergeIdx, pausePc, resumePc, deletePc,
                    seen, afterCompleted >>
    /\ UNCHANGED << URL, headCode, lastErr, served >>
    /\ UNCHANGED << busVars, cliVars, idVars >>

\* startDownload going on as soon as one worker has returned.
startDownloadWaitsForOne ==
    /\ ctl = "wait"
    /\ \E i \in Workers : wk[i] \in {"done", "failed"}
    /\ IF \E i \in Workers : wk[i] = "failed"
       THEN /\ Status' = StatusError
            /\ ctl' = "berror"
       ELSE /\ ctl' = "check"
            /\ UNCHANGED Status
    /\ UNCHANGED << downloads, muLocked, Chunks, TotalSize, wk, downloaded, tmp,
                    linked, out, mergeIdx, ticker, pausePc, resumePc, deletePc,
                    seen, afterCompleted >>
    /\ UNCHANGED << URL, headCode, lastErr, served >>
    /\ UNCHANGED << busVars, cliVars, idVars >>

\* wg.Wait returns once every worker has returned; a worker that returned an
\* error puts the download in error (lines 154-172).
startDownloadWait ==
    /\ ctl = "wait"
    /\ \A i \in Workers : wk[i] \in {"done", "failed"}
    /\ IF \E i \in Workers : wk[i] = "failed"
       THEN /\ Status' = StatusError
            /\ ctl' = "berror"
       ELSE /\ ctl' = "check"
            /\ UNCHANGED Status
    /\ UNCHANGED << downloads, muLocked, Chunks, TotalSize, wk, downloaded, tmp,
                    linked, out, mergeIdx, ticker, pausePc, resumePc, deletePc,
                    seen, afterCompleted >>
    /\ UNCHANGED << URL, headCode, lastErr, served >>
    /\ UNCHANGED << busVars, cliVars, idVars >>

\* if d.Status == StatusDownloading (line 175); mergeChunks begins by
\* creating the output file (lines 429-436), which may fail.
startDownloadCheck ==
    /\ ctl = "check"
    /\ IF Status = StatusDownloading
       THEN \/ /\ out' = 0
               /\ mergeIdx' = 0
               /\ ctl' = "merge"
               /\ UNCHANGED Status
            \/ /\ Status' = StatusError
               /\ ctl' = "berror"
               /\ UNCHANGED << out, mergeIdx >>
       ELSE /\ ctl' = "done"
            /\ UNCHANGED << Status, out, mergeIdx >>
    /\ UNCHANGED << downloads, muLocked, Chunks, TotalSize, wk, downloaded, tmp,
                    linked, ticker, pausePc, resumePc, deletePc, seen,
                    afterCompleted >>
    /\ UNCHANGED << URL, headCode, lastErr, served >>
    /\ UNCHANGED << busVars, cliVars, idVars >>

\* whether a flush of the output to stable storage has returned: mergeChunks
\* (lines 427-474) writes the output with io.Copy and closes it in a defer,
\* and neither it nor startDownload calls outputFile.Sync
outputSynced == FALSE

\* the calls of mergeChunks startDownload has made once a merge is under
\* way: the one of line 177, which stands in no loop
mergeAttempt == 1

\* one turn of mergeChunks' loop (lines 443-465): open chunk file mergeIdx,
\* append it to the output, remove it.  A chunk file that is gone fails the
\* merge (lines 446-449), and so does an error of io.Copy (lines 452-457).
mergeChunksStep ==
    /\ ctl = "merge"
    /\ IF tmp[mergeIdx] = Absent
       THEN /\ Status' = StatusError
            /\ ctl' = "berror"
            /\ UNCHANGED << out, tmp, linked, mergeIdx >>
       ELSE \/ /\ out' = out + tmp[mergeIdx]
               /\ tmp' = [tmp EXCEPT ![mergeIdx] = Absent]
               /\ linked' = [linked EXCEPT ![mergeIdx] = FALSE]
               /\ mergeIdx' = mergeIdx + 1
               /\ ctl' = IF mergeIdx + 1 = Chunks THEN "verify" ELSE "merge"
               /\ UNCHANGED Status
            \/ /\ Status' = StatusError
               /\ ctl' = "berror"
               /\ UNCHANGED << out, tmp, linked, mergeIdx >>
    /\ UNCHANGED << downloads, muLocked, Chunks, TotalSize, wk, downloaded,
                    ticker, pausePc, resumePc, deletePc, seen, afterCompleted >>
    /\ UNCHANGED << URL, headCode, lastErr, served >>
    /\ UNCHANGED << busVars, cliVars, idVars >>

\* totalMerged != d.TotalSize fails the merge (lines 468-470); otherwise
\* d.Status = StatusCompleted (line 189).  totalMerged is the output's size.
mergeChunksVerify ==
    /\ ctl = "verify"
    /\ IF out # TotalSize
       THEN /\ Status' = StatusError
            /\ ctl' = "berror"
       ELSE /\ Status' = StatusCompleted
            /\ ctl' = "bcompleted"
    /\ UNCHANGED << downloads, muLocked, Chunks, TotalSize, wk, downloaded, tmp,
                    linked, out, mergeIdx, ticker, pausePc, resumePc, deletePc,
                    seen, afterCompleted >>
    /\ UNCHANGED << URL, headCode, lastErr, served >>
    /\ UNCHANGED << busVars, cliVars, idVars >>

\* the controller returning without its "completed" broadcast.
BroadcastCompletedSilent ==
    /\ ctl = "bcompleted"
    /\ ctl' = "done"
    /\ UNCHANGED << seen, afterCompleted >>
    /\ UNCHANGED << downloads, muLocked, Status, Chunks, TotalSize, wk,
                    downloaded, tmp, linked, out, mergeIdx, ticker, pausePc,
                    resumePc, deletePc >>
    /\ UNCHANGED << URL, headCode, lastErr, served >>
    /\ UNCHANGED << busVars, cliVars, idVars >>

\* the "completed" broadcast (lines 191-195 and 420-424)
BroadcastCompleted ==
    /\ ctl = "bcompleted"
    /\ broadcastUpdate("completed")
    /\ ctl' = "done"
    /\ UNCHANGED << downloads, muLocked, Status, Chunks, TotalSize, wk,
                    downloaded, tmp, linked, out, mergeIdx, ticker, pausePc,
                    resumePc, deletePc >>
    /\ UNCHANGED << URL, headCode, lastErr, served >>
    /\ UNCHANGED << busVars, cliVars, idVars >>

(***************************************************************************)
(* downloadSingleFile, run by the controller goroutine itself.             *)
(***************************************************************************)
\* the GET and os.Create(d.OutputPath) (lines 301-341): either may fail; on
\* success the single-file ticker goroutine is started (lines 350-372).
downloadSingleFileOpen ==
    /\ ctl = "single"
    /\ \/ /\ Status' = StatusError
          /\ ctl' = "berror"
          /\ UNCHANGED << out, ticker >>
       \/ /\ out' = 0
          /\ ticker' = "tick"
          /\ ctl' = "select"
          /\ UNCHANGED Status
    /\ UNCHANGED << downloads, muLocked, Chunks, TotalSize, wk, downloaded, tmp,
                    linked, mergeIdx, pausePc, resumePc, deletePc, seen,
                    afterCompleted >>
    /\ UNCHANGED << URL, headCode, lastErr, served >>
    /\ UNCHANGED << busVars, cliVars, idVars >>

\* the select at the head of the loop (lines 376-380): a waiting sender on
\* pauseChan is received and the goroutine goes on to wait for the next
\* value; with no sender the default branch is taken.
downloadSingleFileSelect ==
    /\ ctl = "select"
    /\ IF SenderWaiting
       THEN /\ ReceivePauseChan
            /\ ctl' = "parked"
       ELSE /\ ctl' = "io"
            /\ UNCHANGED << pausePc, resumePc >>
    /\ UNCHANGED << downloads, muLocked, Status, Chunks, TotalSize, wk,
                    downloaded, tmp, linked, out, mergeIdx, ticker, deletePc,
                    seen, afterCompleted >>
    /\ UNCHANGED << URL, headCode, lastErr, served >>
    /\ UNCHANGED << busVars, cliVars, idVars >>

\* <-d.pauseChan // Wait for resume (line 379)
downloadSingleFileUnpark ==
    /\ ctl = "parked"
    /\ ReceivePauseChan
    /\ ctl' = "select"
    /\ UNCHANGED << downloads, muLocked, Status, Chunks, TotalSize, wk,
                    downloaded, tmp, linked, out, mergeIdx, ticker, deletePc,
                    seen, afterCompleted >>
    /\ UNCHANGED << URL, headCode, lastErr, served >>
    /\ UNCHANGED << busVars, cliVars, idVars >>

\* the default branch (lines 381-411): a read or write error ends in error;
\* n == 0 leaves the loop; n > 0 is written to the output, and with io.EOF
\* the loop is left.
downloadSingleFileIO ==
    /\ ctl = "io"
    /\ \/ /\ Status' = StatusError
          /\ ctl' = "berror"
          /\ UNCHANGED out
       \/ /\ ctl' = "complete"
          /\ UNCHANGED << Status, out >>
       \/ /\ out < MaxSize
          /\ out' = out + 1
          /\ \E eof \in BOOLEAN : ctl' = IF eof THEN "complete" ELSE "select"
          /\ UNCHANGED Status
    /\ UNCHANGED << downloads, muLocked, Chunks, TotalSize, wk, downloaded, tmp,
                    linked, mergeIdx, ticker, pausePc, resumePc, deletePc, seen,
                    afterCompleted >>
    /\ UNCHANGED << URL, headCode, lastErr, served >>
    /\ UNCHANGED << busVars, cliVars, idVars >>

\* d.Status = StatusCompleted (line 415)
downloadSingleFileComplete ==
    /\ ctl = "complete"
    /\ Status' = StatusCompleted
    /\ ctl' = "bcompleted"
    /\ UNCHANGED << downloads, muLocked, Chunks, TotalSize, wk, downloaded, tmp,
                    linked, out, mergeIdx, ticker, pausePc, resumePc, deletePc,
                    seen, afterCompleted >>
    /\ UNCHANGED << URL, headCode, lastErr, served >>
    /\ UNCHANGED << busVars, cliVars, idVars >>

(***************************************************************************)
(* downloadChunk, one goroutine per chunk.                                 *)
(***************************************************************************)
\* after the loop (lines 283-296): a byte count other than the range's size
\* is an error; otherwise a last "progress" broadcast and return nil.
AfterLoop(i, n) == IF n # actualChunkSize(i) THEN "failed" ELSE "bdone"

\* the ranged GET and os.Create of the chunk file (lines 211-235): a failed
\* request, a status other than 206 or a failed create returns an error.
downloadChunkOpen(i) ==
    /\ wk[i] = "request"
    /\ \/ /\ wk' = [wk EXCEPT ![i] = "failed"]
          /\ UNCHANGED << tmp, linked >>
       \/ /\ tmp' = [tmp EXCEPT ![i] = 0]
          /\ linked' = [linked EXCEPT ![i] = TRUE]
          /\ wk' = [wk EXCEPT ![i] = "select"]
    /\ UNCHANGED << downloads, muLocked, Status, Chunks, TotalSize, ctl,
                    downloaded, out, mergeIdx, ticker, pausePc, resumePc,
                    deletePc, seen, afterCompleted >>
    /\ UNCHANGED << URL, headCode, lastErr, served >>
    /\ UNCHANGED << busVars, cliVars, idVars >>

\* the select at the head of the loop (lines 243-247)
downloadChunkSelect(i) ==
    /\ wk[i] = "select"
    /\ IF SenderWaiting
       THEN /\ ReceivePauseChan
            /\ wk' = [wk EXCEPT ![i] = "parked"]
       ELSE /\ wk' = [wk EXCEPT ![i] = "io"]
            /\ UNCHANGED << pausePc, resumePc >>
    /\ UNCHANGED << downloads, muLocked, Status, Chunks, TotalSize, ctl,
                    downloaded, tmp, linked, out, mergeIdx, ticker, deletePc,
                    seen, afterCompleted >>
    /\ UNCHANGED << URL, headCode, lastErr, served >>
    /\ UNCHANGED << busVars, cliVars, idVars >>

\* <-d.pauseChan // Wait for resume (line 246)
downloadChunkUnpark(i) ==
    /\ wk[i] = "parked"
    /\ ReceivePauseChan
    /\ wk' = [wk EXCEPT ![i] = "select"]
    /\ UNCHANGED << downloads, muLocked, Status, Chunks, TotalSize, ctl,
                    downloaded, tmp, linked, out, mergeIdx, ticker, deletePc,
                    seen, afterCompleted >>
    /\ UNCHANGED << URL, headCode, lastErr, served >>
    /\ UNCHANGED << busVars, cliVars, idVars >>

\* the default branch (lines 248-279).  A read or write error returns an
\* error; n == 0 leaves the loop; n > 0 is written through the open handle
\* (it reaches the file at the chunk's path unless that file was removed
\* meanwhile) and counted, a "progress" broadcast follows at a 1 MiB
\* boundary or with io.EOF, and io.EOF leaves the loop.
downloadChunkIO(i) ==
    /\ wk[i] = "io"
    /\ \/ /\ wk' = [wk EXCEPT ![i] = "failed"]
          /\ UNCHANGED << downloaded, tmp >>
       \/ /\ wk' = [wk EXCEPT ![i] = AfterLoop(i, downloaded[i])]
          /\ UNCHANGED << downloaded, tmp >>
       \/ /\ downloaded[i] < actualChunkSize(i) + MaxExtra
          /\ downloaded' = [downloaded EXCEPT ![i] = @ + 1]
          /\ tmp' = IF linked[i] THEN [tmp EXCEPT ![i] = @ + 1] ELSE tmp
          /\ \E eof, boundary \in BOOLEAN :
                wk' = [wk EXCEPT ![i] = IF eof THEN "bprogEof"
                                        ELSE IF boundary THEN "bprog"
                                        ELSE "select"]
    /\ UNCHANGED << downloads, muLocked, Status, Chunks, TotalSize, ctl, linked,
                    out, mergeIdx, ticker, pausePc, resumePc, deletePc, seen,
                    afterCompleted >>
    /\ UNCHANGED << URL, headCode, lastErr, served >>
    /\ UNCHANGED << busVars, cliVars, idVars >>

\* the "progress" broadcast inside the loop (lines 268-274)
downloadChunkBroadcast(i) ==
    /\ wk[i] \in {"bprog", "bprogEof"}
    /\ broadcastUpdate("progress")
    /\ wk' = [wk EXCEPT ![i] = IF wk[i] = "bprog" THEN "select"
                                ELSE AfterLoop(i, downloaded[i])]
    /\ UNCHANGED << downloads, muLocked, Status, Chunks, TotalSize, ctl,
                    downloaded, tmp, linked, out, mergeIdx, ticker, pausePc,
                    resumePc, deletePc >>
    /\ UNCHANGED << URL, headCode, lastErr, served >>
    /\ UNCHANGED << busVars, cliVars, idVars >>

\* the "progress" broadcast of a finished chunk (lines 290-296)
downloadChunkReturn(i) ==
    /\ wk[i] = "bdone"
    /\ broadcastUpdate("progress")
    /\ wk' = [wk EXCEPT ![i] = "done"]
    /\ UNCHANGED << downloads, muLocked, Status, Chunks, TotalSize, ctl,
                    downloaded, tmp, linked, out, mergeIdx, ticker, pausePc,
                    resumePc, deletePc >>
    /\ UNCHANGED << URL, headCode, lastErr, served >>
    /\ UNCHANGED << busVars, cliVars, idVars >>

(***************************************************************************)
(* updateProgress, the ticker of a chunked download (lines 564-606); the   *)
(* ticker of downloadSingleFile (lines 350-372) takes the same two steps.  *)
(***************************************************************************)
\* a tick: if d.Status != StatusDownloading { return }
\* The arithmetic of a tick (lines 574-579), in exact fractions.
\* d.ChunkProgress[i] is downloaded / actualChunkSize * 100 (line 264), so
\* the sum of the first k entries is 100 * SumNum(k) / SumDen(k).
RECURSIVE SumDen(_)
SumDen(k) == IF k = 0 THEN 1 ELSE SumDen(k - 1) * actualChunkSize(k - 1)

RECURSIVE SumNum(_)
SumNum(k) ==
    IF k = 0 THEN 0
    ELSE SumNum(k - 1) * actualChunkSize(k - 1)
            + downloaded[k - 1] * SumDen(k - 1)

\* d.Progress = totalProgress / float64(d.Chunks) and
\* d.Downloaded = int64(float64(d.TotalSize) * d.Progress / 100): the
\* conversion to int64 drops the fraction
updateProgressDownloaded ==
    GoDiv(TotalSize * SumNum(Chunks), SumDen(Chunks) * Chunks)

updateProgressTick ==
    /\ ticker = "tick"
    /\ ticker' = IF Status # StatusDownloading THEN "exit" ELSE "bcast"
    /\ UNCHANGED << downloads, muLocked, Status, Chunks, TotalSize, ctl, wk,
                    downloaded, tmp, linked, out, mergeIdx, pausePc, resumePc,
                    deletePc, seen, afterCompleted >>
    /\ UNCHANGED << URL, headCode, lastErr, served >>
    /\ UNCHANGED << busVars, cliVars, idVars >>

\* the "progress" broadcast that ends the tick
updateProgressBroadcast ==
    /\ ticker = "bcast"
    /\ broadcastUpdate("progress")
    /\ ticker' = "tick"
    /\ UNCHANGED << downloads, muLocked, Status, Chunks, TotalSize, ctl, wk,
                    downloaded, tmp, linked, out, mergeIdx, pausePc, resumePc,
                    deletePc >>
    /\ UNCHANGED << URL, headCode, lastErr, served >>
    /\ UNCHANGED << busVars, cliVars, idVars >>

(***************************************************************************)
(* PauseDownload and ResumeDownload.                                       *)
(***************************************************************************)
\* the lookup under m.mu.RLock and the read of download.Status (lines
\* 477-485): an id that is not in the registry returns an error; with a
\* status other than downloading the call returns nil at once.
PauseDownloadCheck ==
    /\ pausePc = "idle"
    /\ ~muLocked
    /\ IF ID \notin downloads
       THEN /\ lastErr' = NotFound
            /\ UNCHANGED pausePc
       ELSE IF Status = StatusDownloading
       THEN /\ pausePc' = "set"
            /\ UNCHANGED lastErr
       ELSE /\ lastErr' = "nil"
            /\ UNCHANGED pausePc
    /\ UNCHANGED << downloads, muLocked, Status, Chunks, TotalSize, ctl, wk,
                    downloaded, tmp, linked, out, mergeIdx, ticker, resumePc,
                    deletePc, seen, afterCompleted, URL, headCode, served >>
    /\ UNCHANGED << busVars, cliVars, idVars >>

\* download.Status = StatusPaused (line 486); the send on pauseChan (line
\* 487) then blocks until a goroutine receives.
PauseDownloadSet ==
    /\ pausePc = "set"
    /\ Status' = StatusPaused
    /\ pausePc' = "send"
    /\ UNCHANGED << downloads, muLocked, Chunks, TotalSize, ctl, wk, downloaded,
                    tmp, linked, out, mergeIdx, ticker, resumePc, deletePc,
                    seen, afterCompleted >>
    /\ UNCHANGED << URL, headCode, lastErr, served >>
    /\ UNCHANGED << busVars, cliVars, idVars >>

\* the "paused" broadcast (lines 488-492) and return
PauseDownloadBroadcast ==
    /\ pausePc = "bcast"
    /\ broadcastUpdate("paused")
    /\ pausePc' = "idle"
    /\ lastErr' = "nil"
    /\ UNCHANGED << downloads, muLocked, Status, Chunks, TotalSize, ctl, wk,
                    downloaded, tmp, linked, out, mergeIdx, ticker, resumePc,
                    deletePc, URL, headCode, served >>
    /\ UNCHANGED << busVars, cliVars, idVars >>

\* lines 499-507: as PauseDownload, with the status paused
ResumeDownloadCheck ==
    /\ resumePc = "idle"
    /\ ~muLocked
    /\ IF ID \notin downloads
       THEN /\ lastErr' = NotFound
            /\ UNCHANGED resumePc
       ELSE IF Status = StatusPaused
       THEN /\ resumePc' = "set"
            /\ UNCHANGED lastErr
       ELSE /\ lastErr' = "nil"
            /\ UNCHANGED resumePc
    /\ UNCHANGED << downloads, muLocked, Status, Chunks, TotalSize, ctl, wk,
                    downloaded, tmp, linked, out, mergeIdx, ticker, pausePc,
                    deletePc, seen, afterCompleted, URL, headCode, served >>
    /\ UNCHANGED << busVars, cliVars, idVars >>

\* download.Status = StatusDownloading (line 508), then the send (line 509)
ResumeDownloadSet ==
    /\ resumePc = "set"
    /\ Status' = StatusDownloading
    /\ resumePc' = "send"
    /\ UNCHANGED << downloads, muLocked, Chunks, TotalSize, ctl, wk, downloaded,
                    tmp, linked, out, mergeIdx, ticker, pausePc, deletePc, seen,
                    afterCompleted >>
    /\ UNCHANGED << URL, headCode, lastErr, served >>
    /\ UNCHANGED << busVars, cliVars, idVars >>

\* the "resumed" broadcast (lines 510-514) and return
ResumeDownloadBroadcast ==
    /\ resumePc = "bcast"
    /\ broadcastUpdate("resumed")
    /\ resumePc' = "idle"
    /\ lastErr' = "nil"
    /\ UNCHANGED << downloads, muLocked, Status, Chunks, TotalSize, ctl, wk,
                    downloaded, tmp, linked, out, mergeIdx, ticker, pausePc,
                    deletePc, URL, headCode, served >>
    /\ UNCHANGED << busVars, cliVars, idVars >>

(***************************************************************************)
(* DeleteDownload: m.mu is held for writing from the lookup to the return. *)
(***************************************************************************)
\* DeleteDownload removing the output file of the download as well.
DeleteDownloadRemovesOutput ==
    /\ deletePc = "idle"
    /\ ~muLocked
    /\ IF ID \notin downloads
       THEN /\ lastErr' = NotFound
            /\ UNCHANGED << downloads, muLocked, deletePc, out >>
       ELSE IF Status = StatusDownloading
       THEN /\ muLocked' = TRUE
            /\ deletePc' = "cancel"
            /\ UNCHANGED << downloads, lastErr, out >>
       ELSE /\ downloads' = downloads \ {ID}
            /\ out' = Absent
            /\ lastErr' = "nil"
            /\ UNCHANGED << muLocked, deletePc >>
    /\ UNCHANGED << Status, Chunks, TotalSize, ctl, wk, downloaded, tmp, linked,
                    mergeIdx, ticker, pausePc, resumePc, seen,
                    afterCompleted, URL, headCode, served >>
    /\ UNCHANGED << busVars, cliVars, idVars >>

\* lines 609-618: lock, look the download up, read its Status.  An id that
\* is not in the registry returns an error; a download that is not
\* downloading is removed from the registry at once (line 629).
DeleteDownloadCheck ==
    /\ deletePc = "idle"
    /\ ~muLocked
    /\ IF ID \notin downloads
       THEN /\ lastErr' = NotFound
            /\ UNCHANGED << downloads, muLocked, deletePc >>
       ELSE IF Status = StatusDownloading
       THEN /\ muLocked' = TRUE
            /\ deletePc' = "cancel"
            /\ UNCHANGED << downloads, lastErr >>
       ELSE /\ downloads' = downloads \ {ID}
            /\ lastErr' = "nil"
            /\ UNCHANGED << muLocked, deletePc >>
    /\ UNCHANGED << Status, Chunks, TotalSize, ctl, wk, downloaded, tmp, linked,
                    out, mergeIdx, ticker, pausePc, resumePc, seen,
                    afterCompleted, URL, headCode, served >>
    /\ UNCHANGED << busVars, cliVars, idVars >>

\* lines 619-630: Status = error, os.Remove of every chunk file, delete from
\* the registry, unlock.
DeleteDownloadCancel ==
    /\ deletePc = "cancel"
    /\ Status' = StatusError
    /\ tmp' = [i \in ChunkIds |-> Absent]
    /\ linked' = [i \in ChunkIds |-> FALSE]
    /\ downloads' = downloads \ {ID}
    /\ muLocked' = FALSE
    /\ deletePc' = "idle"
    /\ lastErr' = "nil"
    /\ UNCHANGED << Chunks, TotalSize, ctl, wk, downloaded, out, mergeIdx,
                    ticker, pausePc, resumePc, seen, afterCompleted, URL,
                    headCode, served >>
    /\ UNCHANGED << busVars, cliVars, idVars >>

\* GetDownload without the test of exists.
GetDownloadFindsAny ==
    /\ ~muLocked
    /\ lastErr' = "nil"
    /\ UNCHANGED << downloads, muLocked, Status, Chunks, TotalSize, ctl, wk,
                    downloaded, tmp, linked, out, mergeIdx, ticker, pausePc,
                    resumePc, deletePc, seen, afterCompleted, URL, headCode, served >>
    /\ UNCHANGED << busVars, cliVars, idVars >>

(***************************************************************************)
(* GetDownload (lines 553-562): the lookup under m.mu.RLock.               *)
(***************************************************************************)
GetDownload ==
    /\ ~muLocked
    /\ lastErr' = IF ID \in downloads THEN "nil" ELSE NotFound
    /\ UNCHANGED << downloads, muLocked, Status, Chunks, TotalSize, ctl, wk,
                    downloaded, tmp, linked, out, mergeIdx, ticker, pausePc,
                    resumePc, deletePc, seen, afterCompleted, URL, headCode, served >>
    /\ UNCHANGED << busVars, cliVars, idVars >>

\* GetAllDownloads (lines 542-551): the downloads of the registry
GetAllDownloads == downloads

\* Server.downloadFile without the test of the status.
downloadFileAnyStatus ==
    /\ ~muLocked
    /\ IF ID \notin downloads
       THEN /\ lastErr' = NotFound
            /\ UNCHANGED served
       ELSE /\ lastErr' = "nil"
            /\ served' = IF out = Absent THEN served ELSE out
    /\ UNCHANGED << downloads, muLocked, Status, Chunks, TotalSize, ctl, wk,
                    downloaded, tmp, linked, out, mergeIdx, ticker, pausePc,
                    resumePc, deletePc, seen, afterCompleted, URL, headCode >>
    /\ UNCHANGED << busVars, cliVars, idVars >>

(***************************************************************************)
(* Server.downloadFile, GET /api/downloads/{id}/file (handlers.go lines    *)
(* 124-162).  GetDownload's error is answered 404, a status other than     *)
(* completed 400, a file os.Stat reports missing 404, a failing os.Open    *)
(* 500: each is an http.Error and a return before any file content is      *)
(* written.  Otherwise io.Copy streams the file.                           *)
(***************************************************************************)
downloadFile ==
    /\ ~muLocked
    /\ IF ID \notin downloads
       THEN /\ lastErr' = NotFound
            /\ UNCHANGED served
       ELSE /\ lastErr' = "nil"
            /\ served' = IF Status # StatusCompleted THEN served
                         ELSE IF out = Absent THEN served
                         ELSE out
    /\ UNCHANGED << downloads, muLocked, Status, Chunks, TotalSize, ctl, wk,
                    downloaded, tmp, linked, out, mergeIdx, ticker, pausePc,
                    resumePc, deletePc, seen, afterCompleted, URL, headCode >>
    /\ UNCHANGED << busVars, cliVars, idVars >>

\* the output file of a finished download is removed from the disk by
\* someone else; os.Stat then reports it missing (handlers.go line 139)
OutputFileRemoved ==
    /\ ctl = "done"
    /\ Status = StatusCompleted
    /\ out # Absent
    /\ out' = Absent
    /\ UNCHANGED << downloads, muLocked, Status, Chunks, TotalSize, ctl, wk,
                    downloaded, tmp, linked, mergeIdx, ticker, pausePc,
                    resumePc, deletePc, seen, afterCompleted >>
    /\ UNCHANGED << URL, headCode, lastErr, served >>
    /\ UNCHANGED << busVars, cliVars, idVars >>

ProbeSizes == (-1) .. MaxSize
\* the answers to the probe's HEAD: status, Content-Length, Accept-Ranges.
\* An answer with status 404 advertises no ranges.
ProbeAnswers ==
    [code : {200}, size : ProbeSizes, ranges : BOOLEAN]
        \cup [code : {404}, size : ProbeSizes, ranges : {FALSE}]
Urls == {"", "http://origin/file"}  \* the url of an AddDownload request

Next ==
    \/ \E url \in Urls, n \in 1 .. MaxChunks : AddDownload(url, n)
    \/ startDownloadSetStatus
    \/ startDownloadBroadcastStatus
    \/ startDownloadProbeFails
    \/ \E a \in ProbeAnswers : startDownloadProbe(a.code, a.size, a.ranges)
    \/ BroadcastError
    \/ startDownloadSpawn
    \/ startDownloadWait
    \/ startDownloadCheck
    \/ mergeChunksStep
    \/ mergeChunksVerify
    \/ BroadcastCompleted
    \/ downloadSingleFileOpen
    \/ downloadSingleFileSelect
    \/ downloadSingleFileUnpark
    \/ downloadSingleFileIO
    \/ downloadSingleFileComplete
    \/ \E i \in ChunkIds : \/ downloadChunkOpen(i)
                          \/ downloadChunkSelect(i)
                          \/ downloadChunkUnpark(i)
                          \/ downloadChunkIO(i)
                          \/ downloadChunkBroadcast(i)
                          \/ downloadChunkReturn(i)
    \/ updateProgressTick
    \/ updateProgressBroadcast
    \/ PauseDownloadCheck
    \/ PauseDownloadSet
    \/ PauseDownloadBroadcast
    \/ ResumeDownloadCheck
    \/ ResumeDownloadSet
    \/ ResumeDownloadBroadcast
    \/ DeleteDownloadCheck
    \/ DeleteDownloadCancel
    \/ GetDownload
    \/ downloadFile
    \/ OutputFileRemoved

Spec == Init /\ [][Next]_vars

(***************************************************************************)
(* BusSpec: Subscribe, broadcastUpdate and the subscribers' receives.      *)
(* Updates are numbered in the order of the broadcastUpdate calls;         *)
(* published[e] is the type of update e.                                   *)
(***************************************************************************)
NotSending == [ev |-> 0, idx |-> 0]

\* Offer with the send skipped one slot before the channel is full.
OfferSkipsEarly(ch, update) ==
    IF Len(ch) < ChanCap - 1 THEN Append(ch, update) ELSE ch

\* Offer with the update put ahead of the queued ones.
OfferAhead(ch, update) ==
    IF Len(ch) < ChanCap THEN << update >> \o ch ELSE ch

\* select { case listener <- update: default: } (lines 534-538): the update
\* is queued when the channel has room and skipped when it is full.
Offer(ch, update) == IF Len(ch) < ChanCap THEN Append(ch, update) ELSE ch

\* Subscribe (lines 520-527): m.mu.Lock waits until no broadcastUpdate holds
\* the lock for reading; a fresh channel is appended to m.listeners.
Subscribe ==
    /\ Len(listeners) < MaxSubs
    /\ \A p \in Publishers : sending[p] = NotSending
    /\ listeners' = Append(listeners, << >>)
    /\ delivered' = Append(delivered, << >>)
    /\ subscribedAt' = Append(subscribedAt, Len(published))
    /\ UNCHANGED << sending, published, returned, precedes, dropped >>
    /\ UNCHANGED << lifeVars, cliVars, idVars >>

\* a goroutine calls broadcastUpdate (lines 529-533): it takes m.mu.RLock
\* and starts ranging over m.listeners; with no listener it returns at once.
broadcastUpdateCall(p, type) ==
    /\ sending[p] = NotSending
    /\ Len(published) < MaxEvents
    /\ published' = Append(published, type)
    /\ precedes' = precedes \cup {<< r, Len(published) + 1 >> : r \in returned}
    /\ IF Len(listeners) = 0
       THEN /\ returned' = returned \cup {Len(published) + 1}
            /\ UNCHANGED sending
       ELSE /\ sending' = [sending EXCEPT ![p] = [ev |-> Len(published) + 1,
                                                  idx |-> 1]]
            /\ UNCHANGED returned
    /\ UNCHANGED << listeners, subscribedAt, delivered, dropped >>
    /\ UNCHANGED << lifeVars, cliVars, idVars >>

\* one turn of the loop: the non-blocking send to listener idx; after the
\* last listener the call returns.
broadcastUpdateSend(p) ==
    /\ sending[p] # NotSending
    /\ LET k == sending[p].idx
           e == sending[p].ev
       IN  /\ listeners' = [listeners EXCEPT ![k] = Offer(@, e)]
           /\ dropped' = IF listeners' = listeners
                         THEN dropped \cup {[sub |-> k, ev |-> e,
                                             len |-> Len(listeners[k])]}
                         ELSE dropped
           /\ IF k = Len(listeners)
              THEN /\ sending' = [sending EXCEPT ![p] = NotSending]
                   /\ returned' = returned \cup {e}
              ELSE /\ sending' = [sending EXCEPT ![p].idx = k + 1]
                   /\ UNCHANGED returned
    /\ UNCHANGED << published, precedes, subscribedAt, delivered >>
    /\ UNCHANGED << lifeVars, cliVars, idVars >>

\* a subscriber (the websocket hub) receives the oldest queued update
Receive(k) ==
    /\ k \in 1 .. Len(listeners)
    /\ listeners[k] # << >>
    /\ delivered' = [delivered EXCEPT ![k] = Append(@, Head(listeners[k]))]
    /\ listeners' = [listeners EXCEPT ![k] = Tail(@)]
    /\ UNCHANGED << sending, published, returned, precedes, subscribedAt,
                    dropped >>
    /\ UNCHANGED << lifeVars, cliVars, idVars >>

BusNext ==
    \/ Subscribe
    \/ \E p \in Publishers, type \in BusTypes : broadcastUpdateCall(p, type)
    \/ \E p \in Publishers : broadcastUpdateSend(p)
    \/ \E k \in 1 .. MaxSubs : Receive(k)

BusSpec == Init /\ [][BusNext]_vars

(***************************************************************************)
(* CliSpec: the command-line Downloader (scripts/cross-compile.sh), one    *)
(* Download call.  The goroutine of a chunk shares nothing with the others *)
(* but its own file, so a whole downloadChunk call is one step.            *)
(***************************************************************************)
MaxRetries == 3     \* ensureMergeCompletion(chunkFiles, 3)

\* status of a response; 0 stands for a request that returned an error
\* instead of a response
HeadCodes == {0, 200, 404}
ChunkCodes == {0, 200, 206, 404}
CliSizes == (-1) .. MaxFile     \* resp.ContentLength; -1 when there is none
Bodies == 0 .. MaxFile          \* length of the body of a chunk's response
Faults == {"none", "create", "copy", "stall"}    \* what the disk or the connection does

abs(x) == IF x < 0 THEN -x ELSE x

\* NewDownloader(url, outputPath, chunks), as main calls it with the flags
CliInit ==
    /\ InitManager
    /\ dChunks \in 1 .. MaxCliChunks
    /\ cliPc = "probe"
    /\ headRanges = FALSE
    /\ fileSize = 0
    /\ cliChunks = << >>
    /\ cw = [i \in CliChunkIds |-> "idle"]
    /\ respCode = [i \in CliChunkIds |-> 0]
    /\ chunkFiles = [i \in CliChunkIds |-> Absent]
    /\ cliRequests = {}
    /\ attempt = 0
    /\ cliOut = Absent
    /\ cliLayout = << >>
    /\ cliErr = "none"

\* getFileSize (lines 483-502): the size and the error it returns for a HEAD
\* answered with this status and Content-Length
getFileSize(code, size) ==
    IF code = 0 THEN [size |-> 0, err |-> "failed to get file info"]
    ELSE IF code # 200 THEN [size |-> 0, err |-> "server returned status code"]
    ELSE IF size <= 0 THEN [size |-> 0, err |-> "could not determine file size"]
    ELSE [size |-> size, err |-> "nil"]

\* createChunks with every chunk one byte longer at its end.
createChunksOverlap(size, n) ==
    LET chunkSz == GoDiv(size, n)
    IN  [k \in 1 .. n |->
            LET i == k - 1
                startB == i * chunkSz
                endB == IF i = n - 1 THEN size - 1 ELSE startB + chunkSz
            IN  [ID |-> i, StartByte |-> startB, EndByte |-> endB,
                 Size |-> endB - startB + 1]]

\* createChunks with the last chunk cut like the others.
createChunksNoRemainder(size, n) ==
    LET chunkSz == GoDiv(size, n)
    IN  [k \in 1 .. n |->
            LET i == k - 1
                startB == i * chunkSz
                endB == startB + chunkSz - 1
            IN  [ID |-> i, StartByte |-> startB, EndByte |-> endB,
                 Size |-> endB - startB + 1]]

\* createChunks (lines 504-527); chunk i of the code is element i + 1
createChunks(size, n) ==
    LET chunkSz == GoDiv(size, n)
    IN  [k \in 1 .. n |->
            LET i == k - 1
                startB == i * chunkSz
                endB == IF i = n - 1 THEN size - 1 ELSE startB + chunkSz - 1
            IN  [ID |-> i, StartByte |-> startB, EndByte |-> endB,
                 Size |-> endB - startB + 1]]

\* the range Manager.downloadChunk computes for chunk i of n (manager.go
\* lines 134 and 200-207)
ManagerRange(size, n, i) ==
    LET chunkSz == GoDiv(size, n)
        startB == i * chunkSz
        endB == IF i = n - 1 THEN size - 1 ELSE startB + chunkSz - 1
    IN  [StartByte |-> startB, EndByte |-> endB, Size |-> endB - startB + 1]

\* os.RemoveAll(tempDir), deferred by Download
RemoveAllTemp == [i \in CliChunkIds |-> Absent]

\* the bytes of chunk file k, each named by the file
FileOf(k) == [j \in 1 .. chunkFiles[k] |-> k]

\* the copy loop of mergeChunks with each chunk file put before the output
\* written so far.
RECURSIVE mergeCopyReversed(_)
mergeCopyReversed(k) ==
    IF k = 0 THEN << >> ELSE FileOf(k) \o mergeCopyReversed(k - 1)

\* the output after k rounds of the copy loop of mergeChunks (lines 710-735),
\* which ranges over chunkFiles, filled by Download in the order of the
\* chunks (lines 893-895)
RECURSIVE mergeCopy(_)
mergeCopy(k) == IF k = 0 THEN << >> ELSE mergeCopy(k - 1) \o FileOf(k)

\* total size of the first k chunk files
RECURSIVE SizeOfFirst(_)
SizeOfFirst(k) == IF k = 0 THEN 0 ELSE SizeOfFirst(k - 1) + chunkFiles[k]

\* Download, lines 860-863
DownloadGetFileSize(code, size, ranges) ==
    /\ cliPc = "probe"
    /\ headRanges' = (code # 0 /\ ranges)
    /\ fileSize' = getFileSize(code, size).size
    /\ IF getFileSize(code, size).err # "nil"
       THEN /\ cliErr' = getFileSize(code, size).err
            /\ cliPc' = "done"
       ELSE /\ cliPc' = "create"
            /\ UNCHANGED cliErr
    /\ UNCHANGED << dChunks, cliChunks, cw, respCode, chunkFiles, cliRequests,
                    attempt, cliOut, cliLayout >>
    /\ UNCHANGED << lifeVars, busVars, idVars >>

\* Download, lines 867-905: createChunks, the temporary and the output
\* directory (either may fail), one goroutine per chunk
DownloadCreateChunks(mkdirFails) ==
    /\ cliPc = "create"
    /\ cliChunks' = createChunks(fileSize, dChunks)
    /\ IF mkdirFails
       THEN /\ cliErr' = "failed to create directory"
            /\ cliPc' = "done"
            /\ UNCHANGED cw
       ELSE /\ cliPc' = "fetch"
            /\ cw' = [i \in CliChunkIds |->
                         IF i <= dChunks THEN "running" ELSE "idle"]
            /\ UNCHANGED cliErr
    /\ UNCHANGED << dChunks, headRanges, fileSize, respCode, chunkFiles,
                    cliRequests, attempt, cliOut, cliLayout >>
    /\ UNCHANGED << lifeVars, busVars, idVars >>

\* Downloader.downloadChunk (lines 529-591) for element i: the ranged GET is
\* answered with this status and a body of this length.
DownloaderDownloadChunk(i, code, body, fault) ==
    /\ cliPc = "fetch"
    /\ cw[i] = "running"
    /\ cliRequests' = cliRequests \cup {[StartByte |-> cliChunks[i].StartByte,
                                         EndByte |-> cliChunks[i].EndByte]}
    /\ respCode' = [respCode EXCEPT ![i] = code]
    /\ IF code = 0 \/ (code # 206 /\ code # 200) \/ fault = "create"
       THEN /\ cw' = [cw EXCEPT ![i] = "failed"]
            /\ UNCHANGED chunkFiles
       ELSE /\ chunkFiles' = [chunkFiles EXCEPT ![i] = body]
            /\ cw' = [cw EXCEPT ![i] =
                         IF fault = "copy" THEN "failed"
                         ELSE IF fault = "stall" THEN "blocked"
                         ELSE IF code = 206
                                 /\ abs(body - cliChunks[i].Size) > Tolerance
                              THEN "failed"
                              ELSE "completed"]
    /\ UNCHANGED << dChunks, cliPc, headRanges, fileSize, cliChunks, attempt,
                    cliOut, cliLayout, cliErr >>
    /\ UNCHANGED << lifeVars, busVars, idVars >>

\* copyWithActivityTimeout, lines 613 and 632-640, for a goroutine blocked in
\* src.Read: the connection is reset or closed by the peer, Read returns an
\* error that is not io.EOF, and the function returns an error (the
\* inactivity error when more than the timeout has passed since the last
\* byte).  No deadline is set at lines 606-611, the ChunkProgressReader
\* having no SetReadDeadline, so nothing but the peer ends the Read.
DownloaderReadFails(i) ==
    /\ cliPc = "fetch"
    /\ cw[i] = "blocked"
    /\ cw' = [cw EXCEPT ![i] = "failed"]
    /\ UNCHANGED << dChunks, cliPc, headRanges, fileSize, cliChunks, respCode,
                    chunkFiles, cliRequests, attempt, cliOut, cliLayout,
                    cliErr >>
    /\ UNCHANGED << lifeVars, busVars, idVars >>

\* Download, lines 907-929: wg.Wait, then the errors the goroutines sent
DownloadWait ==
    /\ cliPc = "fetch"
    /\ \A i \in 1 .. dChunks : cw[i] \in {"completed", "failed"}
    /\ IF \E i \in 1 .. dChunks : cw[i] = "failed"
       THEN /\ cliErr' = "download failed with chunk errors"
            /\ cliPc' = "done"
            /\ chunkFiles' = RemoveAllTemp
       ELSE /\ cliPc' = "verify"
            /\ UNCHANGED << cliErr, chunkFiles >>
    /\ UNCHANGED << dChunks, headRanges, fileSize, cliChunks, cw, respCode,
                    cliRequests, attempt, cliOut, cliLayout >>
    /\ UNCHANGED << lifeVars, busVars, idVars >>

\* verifyChunks (lines 649-678): a chunk file that is missing or empty is an
\* error; a size outside the tolerance only prints a warning.
DownloadVerifyChunks ==
    /\ cliPc = "verify"
    /\ IF \E i \in 1 .. dChunks : chunkFiles[i] = Absent \/ chunkFiles[i] = 0
       THEN /\ cliErr' = "chunk verification failed"
            /\ cliPc' = "done"
            /\ chunkFiles' = RemoveAllTemp
            /\ UNCHANGED attempt
       ELSE /\ cliPc' = "merge"
            /\ attempt' = 1
            /\ UNCHANGED << cliErr, chunkFiles >>
    /\ UNCHANGED << dChunks, headRanges, fileSize, cliChunks, cw, respCode,
                    cliRequests, cliOut, cliLayout >>
    /\ UNCHANGED << lifeVars, busVars, idVars >>

\* one attempt of ensureMergeCompletion (lines 786-814): the partial output
\* of the attempt before is removed, then mergeChunks (lines 680-746) and
\* verifyFinalFile (lines 748-784).  With failedAt = 0 the attempt succeeds
\* and Download returns nil; failedAt = k > 0 is a failure while chunk k is
\* copied, with the chunks before it in the output; failedAt = -1 is a
\* failure to create the output.
DownloaderMergeChunks(failedAt) ==
    /\ cliPc = "merge"
    /\ failedAt <= dChunks
    /\ cliOut' = IF failedAt = -1 THEN Absent
                 ELSE IF failedAt = 0 THEN SizeOfFirst(dChunks)
                 ELSE SizeOfFirst(failedAt - 1)
    /\ cliLayout' = IF failedAt = -1 THEN << >>
                    ELSE IF failedAt = 0 THEN mergeCopy(dChunks)
                    ELSE mergeCopy(failedAt - 1)
    /\ IF failedAt = 0
       THEN /\ cliErr' = "nil"
            /\ cliPc' = "done"
            /\ chunkFiles' = RemoveAllTemp
            /\ UNCHANGED attempt
       ELSE IF attempt < MaxRetries
       THEN /\ attempt' = attempt + 1
            /\ UNCHANGED << cliErr, cliPc, chunkFiles >>
       ELSE /\ cliErr' = "merge completion failed"
            /\ cliPc' = "done"
            /\ chunkFiles' = RemoveAllTemp
            /\ UNCHANGED attempt
    /\ UNCHANGED << dChunks, headRanges, fileSize, cliChunks, cw, respCode,
                    cliRequests >>
    /\ UNCHANGED << lifeVars, busVars, idVars >>

CliNext ==
    \/ \E code \in HeadCodes, size \in CliSizes, ranges \in BOOLEAN :
          DownloadGetFileSize(code, size, ranges)
    \/ \E mkdirFails \in BOOLEAN : DownloadCreateChunks(mkdirFails)
    \/ \E i \in CliChunkIds, code \in ChunkCodes, body \in Bodies,
          fault \in Faults : DownloaderDownloadChunk(i, code, body, fault)
    \/ \E i \in CliChunkIds : DownloaderReadFails(i)
    \/ DownloadWait
    \/ DownloadVerifyChunks
    \/ \E failedAt \in (-1) .. MaxCliChunks : DownloaderMergeChunks(failedAt)

CliSpec == CliInit /\ [][CliNext]_vars

(***************************************************************************)
(* IdSpec: the ids of the Manager's downloads.  AddDownload (lines 65-97)  *)
(* runs under m.mu, so the calls are one after another; each reads the     *)
(* clock for its id.                                                       *)
(***************************************************************************)
\* fmt.Sprintf("%d", n) for n >= 0: the decimal digits of n
RECURSIVE Sprintf(_)
Sprintf(n) == IF n < 10 THEN << n >> ELSE Sprintf(n \div 10) \o << n % 10 >>

\* generateID (lines 633-635) when the clock reads now
generateID(now) == Sprintf(now)

\* the clock's reading changes: it never goes back, and between two
\* readings it may stay as it was
ClockAdvances ==
    /\ clock < MaxClock
    /\ clock' = clock + 1
    /\ UNCHANGED << registry, returnedIds, controllers >>
    /\ UNCHANGED << lifeVars, busVars, cliVars >>

\* AddDownload: the Download gets generateID() as its ID (line 76), is
\* stored with m.downloads[download.ID] = download (line 91), its
\* startDownload goroutine is started (line 94) and it is returned.
AddDownloadEntry ==
    /\ Len(returnedIds) < MaxAdds
    /\ LET id == generateID(clock)
           call == Len(returnedIds) + 1
       IN  /\ registry' = [x \in DOMAIN registry \cup {id} |->
                              IF x = id THEN call ELSE registry[x]]
           /\ returnedIds' = Append(returnedIds, id)
           /\ controllers' = controllers \cup {call}
    /\ UNCHANGED clock
    /\ UNCHANGED << lifeVars, busVars, cliVars >>

IdNext == ClockAdvances \/ AddDownloadEntry

IdSpec == Init /\ [][IdNext]_vars

\* The steps of the Downloader itself: every action of CliNext but
\* DownloaderReadFails, which is the peer's doing.  main runs Download to
\* its end and the Go scheduler runs every goroutine that can take a step.
DownloaderSteps ==
    \/ \E code \in HeadCodes, size \in CliSizes, ranges \in BOOLEAN :
          DownloadGetFileSize(code, size, ranges)
    \/ \E mkdirFails \in BOOLEAN : DownloadCreateChunks(mkdirFails)
    \/ \E i \in CliChunkIds, code \in ChunkCodes, body \in Bodies,
          fault \in Faults : DownloaderDownloadChunk(i, code, body, fault)
    \/ DownloadWait
    \/ DownloadVerifyChunks
    \/ \E failedAt \in (-1) .. MaxCliChunks : DownloaderMergeChunks(failedAt)

CliLiveSpec == CliInit /\ [][CliNext]_vars /\ WF_vars(DownloaderSteps)

(***************************************************************************)
(* LiveSpec: every goroutine that can take a step eventually takes one.    *)
(* New requests (AddDownload and the first step of PauseDownload,          *)
(* ResumeDownload and DeleteDownload) are under no obligation to arrive.   *)
(***************************************************************************)
Controller ==
    \/ startDownloadSetStatus
    \/ startDownloadBroadcastStatus
    \/ startDownloadProbeFails
    \/ \E a \in ProbeAnswers : startDownloadProbe(a.code, a.size, a.ranges)
    \/ BroadcastError
    \/ startDownloadSpawn
    \/ startDownloadWait
    \/ startDownloadCheck
    \/ mergeChunksStep
    \/ mergeChunksVerify
    \/ BroadcastCompleted
    \/ downloadSingleFileOpen
    \/ downloadSingleFileSelect
    \/ downloadSingleFileUnpark
    \/ downloadSingleFileIO
    \/ downloadSingleFileComplete

Worker(i) ==
    \/ downloadChunkOpen(i)
    \/ downloadChunkSelect(i)
    \/ downloadChunkUnpark(i)
    \/ downloadChunkIO(i)
    \/ downloadChunkBroadcast(i)
    \/ downloadChunkReturn(i)

Ticker == updateProgressTick \/ updateProgressBroadcast

Requests ==
    \/ PauseDownloadSet
    \/ PauseDownloadBroadcast
    \/ ResumeDownloadSet
    \/ ResumeDownloadBroadcast
    \/ DeleteDownloadCancel

Fairness ==
    /\ WF_vars(Controller)
    /\ \A i \in ChunkIds : WF_vars(Worker(i))
    /\ WF_vars(Ticker)
    /\ WF_vars(Requests)

LiveSpec == Init /\ [][Next]_vars /\ Fairness

(***************************************************************************)
(* Claims.                                                                 *)
(***************************************************************************)

\* C1: once Status is completed or error, no step changes it to another
\* value.
C1_TerminalSticky == [][(Status \in Terminal) => (Status' = Status)]_vars

\* C2: whenever Status is completed or error, no temporary chunk file of
\* the download exists.
C2_NoTempFilesWhenTerminal ==
    Status \in Terminal => \A i \in ChunkIds : tmp[i] = Absent

\* C3: whenever Status is completed, the output file exists and its size
\* is the total size the probe recorded.
C3_CompletedHasTotalSize ==
    Status = StatusCompleted => (out # Absent /\ out = TotalSize)

\* C4: while Status stays paused, no worker (a chunk worker, or the
\* single-file loop) writes a byte.
C4_NoWriteWhilePaused ==
    [][(Status = StatusPaused /\ Status' = StatusPaused)
         => (downloaded' = downloaded /\ (ctl = "io" => out' = out))]_vars

\* C5: once the resume that follows a pause of a chunked download (two or
\* more workers) has been taken off pauseChan, the download eventually
\* reaches completed, unless the origin or the disk fails (a worker returns
\* an error, Status becomes error), the download is deleted or a new pause
\* is requested.
ResumeDelivered == resumePc = "bcast" /\ Chunks >= 2 /\ ctl = "wait"

Excused ==
    \/ Status = StatusError
    \/ \E i \in ChunkIds : wk[i] = "failed"
    \/ ID \notin downloads
    \/ pausePc \in {"set", "send"}

C5_ResumeLeadsToCompleted ==
    ResumeDelivered ~> (Status = StatusCompleted \/ Excused)

\* C6: once DeleteDownload has removed the download from the registry, none
\* of its goroutines is still running or parked.
Stopped ==
    /\ ctl \in {"none", "done"}
    /\ \A i \in ChunkIds : wk[i] \in {"idle", "done", "failed"}
    /\ ticker \in {"none", "exit"}

C6_DeleteAwaitsTasks ==
    (Status # "none" /\ ID \notin downloads) => Stopped

\* C7: no event of the download is handed to the bus after its completed
\* event.
C7_CompletedIsLast == afterCompleted = {}

Range(seq) == {seq[n] : n \in 1 .. Len(seq)}

\* update e has been offered to listener k: its call has passed k in the
\* loop, or has returned and k had subscribed before the call
Offered(e, k) ==
    \/ \E p \in Publishers : sending[p].ev = e /\ k < sending[p].idx
    \/ e \in returned /\ subscribedAt[k] < e

Accepted(e, k) == e \in Range(listeners[k]) \cup Range(delivered[k])

DroppedFor(e, k) == \E d \in dropped : d.sub = k /\ d.ev = e

\* C8: a broadcastUpdate call can always take its next step, whatever the
\* subscribers do; a send is skipped only when that subscriber's channel is
\* full, and every update offered to a subscriber was either queued for it
\* or skipped for it alone.
C8_NonBlockingPerSubscriberDrop ==
    /\ \A p \in Publishers :
          sending[p] # NotSending => ENABLED broadcastUpdateSend(p)
    /\ \A d \in dropped : d.len = ChanCap
    /\ \A e \in 1 .. Len(published), k \in 1 .. Len(listeners) :
          Offered(e, k) => (Accepted(e, k) <=> ~DroppedFor(e, k))

\* an update skipped for one subscriber and received by another
C8_DroppedForOneOnly ==
    \E d \in dropped, k \in 1 .. Len(listeners) :
        k # d.sub /\ d.ev \in Range(delivered[k])

\* C9: no paused, resumed, completed or error update is ever skipped for a
\* subscriber.
C9_StatusEventsNeverDropped ==
    \A d \in dropped : published[d.ev] \notin StatusEvents

\* C10 as claimed: there is one order of publication of which every
\* subscriber's received sequence is a subsequence.
C10_OnePublicationOrder ==
    \E rank \in [1 .. Len(published) -> 1 .. Len(published)] :
        \A k \in 1 .. Len(delivered) :
            \A i, j \in 1 .. Len(delivered[k]) :
                i < j => rank[delivered[k][i]] < rank[delivered[k][j]]

\* C10 as amended: two updates of which the first's broadcastUpdate call
\* had returned before the second's was made are never received by a
\* subscriber in the opposite order.
C10_CallOrderKept ==
    \A k \in 1 .. Len(delivered) :
        \A i, j \in 1 .. Len(delivered[k]) :
            i < j => << delivered[k][j], delivered[k][i] >> \notin precedes

\* a subscriber has received two updates published by calls that did not
\* overlap
C10_TwoOrderedReceived ==
    \E k \in 1 .. Len(delivered) :
        \E i, j \in 1 .. Len(delivered[k]) :
            i < j /\ << delivered[k][i], delivered[k][j] >> \in precedes

\* the bytes of a range, and the ranges Manager.downloadChunk computes for
\* the same size and chunk count
Bytes(c) == c.StartByte .. c.EndByte

ManagerRanges == [k \in 1 .. dChunks |-> ManagerRange(fileSize, dChunks, k - 1)]

Partitioned(cs, size) ==
    /\ cs[1].StartByte = 0
    /\ \A k \in 1 .. (Len(cs) - 1) : cs[k].EndByte + 1 = cs[k + 1].StartByte
    /\ cs[Len(cs)].EndByte = size - 1
    /\ \A k, l \in 1 .. Len(cs) : k # l => Bytes(cs[k]) \cap Bytes(cs[l]) = {}
    /\ UNION {Bytes(cs[k]) : k \in 1 .. Len(cs)} = 0 .. (size - 1)

\* C11: the ranges createChunks returns, and the ranges Manager.downloadChunk
\* computes, start at 0, each end one byte before the next starts, the last
\* ends at size - 1, and they are pairwise disjoint and cover exactly
\* 0 .. size - 1.
C11_RangesPartitionFile ==
    cliChunks # << >> =>
        /\ Partitioned(cliChunks, fileSize)
        /\ Partitioned(ManagerRanges, fileSize)

\* three chunks of a size that three does not divide
C11_ThreeUnevenChunks ==
    Len(cliChunks) = 3 /\ fileSize = 4 /\ cliPc = "fetch"

RECURSIVE SumOfSizes(_, _)
SumOfSizes(cs, k) == IF k = 0 THEN 0 ELSE SumOfSizes(cs, k - 1) + cs[k].Size

SizesAsSpecified(cs, size) ==
    /\ \A k \in 1 .. (Len(cs) - 1) : cs[k].Size = size \div Len(cs)
    /\ cs[Len(cs)].Size = (size \div Len(cs)) + (size % Len(cs))
    /\ SumOfSizes(cs, Len(cs)) = size

\* C12: every chunk but the last has size div n bytes, the last has
\* size div n + size mod n, and the sizes sum to size; 1,000,003 bytes in 4
\* chunks are 250,000, 250,000, 250,000 and 250,003.
C12_SizesSumToTotal ==
    /\ cliChunks # << >> =>
          /\ SizesAsSpecified(cliChunks, fileSize)
          /\ SizesAsSpecified(ManagerRanges, fileSize)
    /\ [k \in 1 .. 4 |-> createChunks(1000003, 4)[k].Size]
          = << 250000, 250000, 250000, 250003 >>
    /\ [k \in 1 .. 4 |-> ManagerRange(1000003, 4, k - 1).Size]
          = << 250000, 250000, 250000, 250003 >>

\* chunks were made of a size the chunk count does not divide
C12_RemainderInLastChunk ==
    /\ Len(cliChunks) >= 2
    /\ fileSize % dChunks # 0
    /\ cliChunks[Len(cliChunks)].Size > cliChunks[1].Size

\* C13: no chunk of size 0 is produced, the chunk count is at most the size,
\* and no range whose start is past its end is requested from the origin.
C13_NoEmptyChunk ==
    /\ \A k \in 1 .. Len(cliChunks) : cliChunks[k].Size >= 1
    /\ Len(cliChunks) <= fileSize
    /\ \A r \in cliRequests : r.StartByte <= r.EndByte

\* C14: PauseDownload on a download that is not downloading, and
\* ResumeDownload on a download that is not paused, cannot return a nil
\* error.
C14_InvalidStateRejected ==
    /\ (ID \in downloads /\ Status # StatusDownloading)
          => ~ENABLED (PauseDownloadCheck /\ lastErr' = "nil")
    /\ (ID \in downloads /\ Status # StatusPaused)
          => ~ENABLED (ResumeDownloadCheck /\ lastErr' = "nil")

\* C15: a GetDownload, PauseDownload, ResumeDownload or DeleteDownload call
\* that does not find the id in the registry returns the not-found error
\* and changes nothing else: no event, no registry entry, no field of a
\* download, no goroutine.
RequestLookup ==
    \/ PauseDownloadCheck
    \/ ResumeDownloadCheck
    \/ DeleteDownloadCheck
    \/ GetDownload

C15_UnknownIdNotFound ==
    [][(ID \notin downloads /\ RequestLookup)
         => (/\ lastErr' = NotFound
             /\ UNCHANGED << downloads, muLocked, Status, Chunks, TotalSize,
                             ctl, wk, downloaded, tmp, linked, out, mergeIdx,
                             ticker, pausePc, resumePc, deletePc, seen,
                             afterCompleted, URL, headCode, served >>)]_vars

\* a request for a deleted download has returned the not-found error
C15_DeletedIdNotFound ==
    lastErr = NotFound /\ Status # "none" /\ ID \notin downloads

\* C16: a request with an empty url registers no download and starts no
\* controller.
C16_InvalidRequestRejected ==
    URL = "" => (downloads = {} /\ Status = "none" /\ ctl = "none")

\* the probe's fetches have not been started
NoFetchStarted ==
    /\ ctl \in {"probe", "berror", "done"}
    /\ out = Absent
    /\ \A i \in ChunkIds : wk[i] = "idle" /\ tmp[i] = Absent

\* C17: after a probe answered 200 with no or a non-positive
\* Content-Length, the controller is on its way to error and has started no
\* fetch.
C17_UnknownSizeFails ==
    (headCode = 200 /\ TotalSize <= 0) => NoFetchStarted

\* C18: after a probe answered with a status that is not 2xx, the
\* controller is on its way to error and has started no fetch.
C18_ProbeFailureIsError ==
    (headCode # 0 /\ headCode \notin 200 .. 299) => NoFetchStarted

\* C19: a Downloader with one chunk, or probing an origin that advertises
\* no ranges, starts no chunk goroutine and sends no GET with a Range
\* header.
C19_SingleFilePath ==
    (cliPc # "probe" /\ cliErr = "none" /\ (dChunks = 1 \/ ~headRanges))
        => (cliRequests = {} /\ \A i \in CliChunkIds : cw[i] = "idle")

\* C20: a chunk whose ranged GET was answered with a status other than 206
\* is never completed, and Download does not return nil after such an
\* answer.
C20_Only206Accepted ==
    /\ \A i \in CliChunkIds : cw[i] = "completed" => respCode[i] = 206
    /\ cliErr = "nil" => \A i \in 1 .. dChunks : respCode[i] = 206

\* C21: a chunk goroutine whose read of the body blocks because the origin
\* stopped sending without closing the connection eventually fails (with
\* the inactivity timeout).
C21_StalledReadFails ==
    \A i \in CliChunkIds : (cw[i] = "blocked") ~> (cw[i] = "failed")

\* the output holds, in this order, the bytes of chunk file 1, then those
\* of chunk file 2, and so on: byte p is of the chunk file k whose bytes
\* occupy the positions after SizeOfFirst(k - 1) up to SizeOfFirst(k)
ConcatenatedInIndexOrder(layout) ==
    /\ Len(layout) = SizeOfFirst(dChunks)
    /\ \A p \in 1 .. Len(layout) :
          /\ layout[p] \in 1 .. dChunks
          /\ SizeOfFirst(layout[p] - 1) < p
          /\ p <= SizeOfFirst(layout[p])

C30_CompletedWithinTolerance ==
    \A i \in 1 .. dChunks :
        (cliPc = "fetch" /\ cw[i] = "completed")
            => abs(chunkFiles[i] - cliChunks[i].Size) <= Tolerance

\* C22: once a chunk worker of a download of known size has failed, the
\* other workers are stopped: no worker counts another byte of its range.
C22_FailureStopsWorkers ==
    [][(TotalSize >= Chunks /\ \E i \in Workers : wk[i] = "failed")
          => downloaded' = downloaded]_vars

\* C29: in a download whose chunks are all of positive size, the byte
\* counter of a chunk worker never exceeds the size of the chunk's range,
\* so that the chunk's percentage stays within 0 .. 100.
C29_CounterWithinChunk ==
    \A i \in Workers :
        (TotalSize >= Chunks /\ wk[i] # "idle") =>
            /\ downloaded[i] <= actualChunkSize(i)
            /\ downloaded[i] * 100 <= 100 * actualChunkSize(i)

C27_TransitionPublished ==
    /\ (pausePc = "send") ~> (pausePc = "idle")
    /\ (resumePc = "send") ~> (resumePc = "idle")

\* C28: a download whose status was set to completed has its "completed"
\* event published, and no second "completed" event is ever published.
C28_OneCompletedEvent ==
    /\ (ctl = "bcompleted") ~> ("completed" \in seen)
    /\ []("completed" \notin afterCompleted)
    /\ []((ctl = "done" /\ Status = StatusCompleted) => "completed" \in seen)

\* the controller has returned after publishing "completed"
C28_CompletedPublished ==
    /\ ctl = "done"
    /\ Status = StatusCompleted
    /\ "completed" \in seen

\* C26: the AddDownload calls returned ids that differ from one another,
\* and every call's Download is still the entry of the registry under its
\* id: no call replaced the entry of another.
C26_IdsUnique ==
    /\ \A i, j \in 1 .. Len(returnedIds) :
          i # j => returnedIds[i] # returnedIds[j]
    /\ \A c \in 1 .. Len(returnedIds) :
          /\ returnedIds[c] \in DOMAIN registry
          /\ registry[returnedIds[c]] = c

\* C31: a turn of mergeChunks' loop, which comes before the verification
\* of the merged size, removes no chunk file.
C31_MergeKeepsChunkFiles ==
    [][(TotalSize >= Chunks /\ mergeIdx' = mergeIdx + 1) => tmp' = tmp]_vars

\* C32: a merge that fails puts the download in error only when it was
\* the last of MaxRetries attempts.
C32_ErrorAfterLastAttempt ==
    [][(/\ TotalSize >= Chunks
        /\ ID \in downloads
        /\ deletePc = "idle"
        /\ \A i \in Workers : mergeIdx <= i => tmp[i] # Absent
        /\ ctl \in {"merge", "verify"}
        /\ ctl' = "berror")
          => mergeAttempt = MaxRetries]_vars

\* C33: while mergeChunks runs every chunk worker has returned without an
\* error, and the status of a chunked download becomes completed only in
\* the step that finds the merged size right after the last chunk was
\* merged.
C33_MergeAfterWorkers ==
    /\ [](ctl \in {"merge", "verify"} => \A i \in Workers : wk[i] = "done")
    /\ [][(Status' = StatusCompleted /\ Status # StatusCompleted
             /\ wk[0] # "idle")
            => (ctl = "verify" /\ mergeIdx = Chunks /\ out = TotalSize
                /\ \A i \in Workers : wk[i] = "done")]_vars

\* a download of two chunks has been merged, verified and set completed
C33_ChunkedCompleted ==
    /\ Chunks = 2
    /\ ctl = "bcompleted"
    /\ Status = StatusCompleted
    /\ \A i \in Workers : wk[i] = "done"

\* C34: once the "completed" event of a chunked download has been
\* published, a flush of the output to stable storage has returned.
C34_CompletedAfterSync ==
    ("completed" \in seen /\ wk[0] # "idle") => outputSynced

\* C35: once the download is registered, its status is changed by steps
\* of the controller only.
C35_ControllerWritesStatus ==
    [][(Status # "none" /\ Status' # Status) => Controller]_vars

\* the bytes the first k chunk workers have counted
RECURSIVE BytesOfFirst(_)
BytesOfFirst(k) == IF k = 0 THEN 0 ELSE BytesOfFirst(k - 1) + downloaded[k - 1]

\* C36: at a tick of updateProgress on a chunked download whose chunks
\* are of positive size and none over full, the Downloaded value the tick
\* computes is the sum of the bytes the chunk workers have counted.
C36_DownloadedIsSum ==
    (/\ ticker = "tick"
     /\ Status = StatusDownloading
     /\ wk[0] # "idle"
     /\ TotalSize >= Chunks
     /\ \A i \in Workers : downloaded[i] <= actualChunkSize(i))
        => updateProgressDownloaded = BytesOfFirst(Chunks)

\* C37: a value PauseDownload or ResumeDownload is sending on pauseChan is
\* eventually received.
C37_SendReceived ==
    /\ (pausePc = "send") ~> (pausePc = "bcast")
    /\ (resumePc = "send") ~> (resumePc = "bcast")

\* C38: a chunk worker at the select of its loop that receives from
\* pauseChan and goes to wait for a resume has received the value of a
\* PauseDownload, not that of a ResumeDownload.
C38_ParkOnPauseOnly ==
    [][\A i \in ChunkIds :
          (wk[i] = "select" /\ wk'[i] = "parked") => resumePc' = resumePc]_vars

\* C39: while a chunked download is downloading, its controller waits for
\* the workers and no PauseDownload or ResumeDownload call is under way,
\* updateProgress has not returned.
C39_UpdaterRunning ==
    (/\ Status = StatusDownloading
     /\ ctl = "wait"
     /\ ID \in downloads
     /\ pausePc = "idle"
     /\ resumePc = "idle")
        => ticker # "exit"

\* C40: once DeleteDownload has taken the download out of the registry and
\* returned, no goroutine of the download publishes a "progress",
\* "completed" or "error" event.
C40_SilentAfterDelete ==
    [][(ID \notin downloads /\ Status # "none" /\ deletePc = "idle")
          => ~(\/ BroadcastError
               \/ BroadcastCompleted
               \/ updateProgressBroadcast
               \/ \E i \in ChunkIds : \/ downloadChunkBroadcast(i)
                                       \/ downloadChunkReturn(i))]_vars

====
